---- MODULE Spec2Model ----
(***************************************************************************)
(* NutriChatBot: the dataset loader (app.py load_data), the vector index   *)
(* (embeddings.py index_nutrition_data), the RAG query (rag_query) and the *)
(* four menu branches of app.py, as a state machine over the relational    *)
(* table, the vector store, the calorie widget and what the page shows.    *)
(***************************************************************************)
EXTENDS Integers, Sequences, FiniteSets, TLC

VARIABLES
    sqlTable,        \* the `nutrition` table of nutrition.db
    collection,      \* the `nutrition` collection of ./chroma
    daily_calories,  \* the number_input widget: its value and what was last typed
    load,            \* what the last load_data run was given and did
    ui               \* what the last user action did and showed

vars == <<sqlTable, collection, daily_calories, load, ui>>

----------------------------------------------------------------------------
(* Bounds of the model *)

\* rows of an input file
MaxRows == 2
\* documents of a collection built before the run starts
MaxPrior == 4

(* Program constants *)

n_results == 3
min_value == 1000
max_value == 5000
default_calories == 2000

----------------------------------------------------------------------------
(* Text.  A Python string is modelled as the sequence of its lines (the     *)
(* pieces between "\n"), so "" is <<"">> and "a\n" is <<"a", "">>.          *)

Str(s) == <<s>>

NL == <<"", "">>

\* a + b on strings
Cat(a, b) ==
    SubSeq(a, 1, Len(a) - 1) \o <<a[Len(a)] \o b[1]>> \o SubSeq(b, 2, Len(b))

RECURSIVE CatAll(_)
CatAll(parts) ==
    IF parts = <<>> THEN Str("")
    ELSE Cat(parts[1], CatAll(Tail(parts)))

----------------------------------------------------------------------------
(* Cells of the input file.  A number is kept in tenths (2500 is 250,       *)
(* 1925 is 192.5); text is the cell as written in the file.                 *)

CsvText(t) ==
    IF t % 10 = 0 THEN ToString(t \div 10)
    ELSE ToString(t \div 10) \o "." \o ToString(t % 10)

NumCell(t) == [kind |-> "num", tenths |-> t, text |-> CsvText(t)]

StrCell(s) == [kind |-> "str", tenths |-> 0, text |-> s]

RequiredColumns == {"name", "calories", "proteins", "fat", "carbohydrate"}

\* df.columns.str.lower().str.replace(' ', '_') on the headers the model uses
Normalize(h) ==
    CASE h = "Name" -> "name"
      [] h = "Calories" -> "calories"
      [] h = "Proteins" -> "proteins"
      [] h = "Fat" -> "fat"
      [] h = "Carbohydrate" -> "carbohydrate"
      [] OTHER -> h

\* the header of column c as the file writes it
RawHeader(c, style) ==
    IF style = "lower" THEN c
    ELSE CASE c = "name" -> "Name"
           [] c = "calories" -> "Calories"
           [] c = "proteins" -> "Proteins"
           [] c = "fat" -> "Fat"
           [] c = "carbohydrate" -> "Carbohydrate"
           [] OTHER -> c

Record(name, calories, proteins, fat, carbohydrate) ==
    [c \in RequiredColumns |->
        CASE c = "name" -> name
          [] c = "calories" -> calories
          [] c = "proteins" -> proteins
          [] c = "fat" -> fat
          [] OTHER -> carbohydrate]

NasiGoreng ==
    Record(StrCell("Nasi Goreng"), NumCell(2500), NumCell(80), NumCell(100), NumCell(350))

Tempe ==
    Record(StrCell("Tempe"), NumCell(1925), NumCell(185), NumCell(40), NumCell(125))

Bakso ==
    Record(StrCell("Bakso"), StrCell("abc"), NumCell(90), NumCell(50), NumCell(80))

RowPool == {NasiGoreng, Tempe, Bakso}

RowSeqs == UNION {[1..n -> RowPool] : n \in 0..MaxRows}

Drops == {{}} \cup {{c} : c \in RequiredColumns}

\* An input file: absent, or a header and rows.  A row of the file maps each
\* header of the file to its cell.
FileRow(r, style, drop) ==
    [h \in {RawHeader(c, style) : c \in RequiredColumns \ drop} |->
        r[Normalize(h)]]

CsvFile(style, drop, rs) ==
    [missing |-> FALSE,
     header |-> {RawHeader(c, style) : c \in RequiredColumns \ drop},
     rows |-> [i \in 1..Len(rs) |-> FileRow(rs[i], style, drop)]]

NoFile == [missing |-> TRUE, header |-> {}, rows |-> <<>>]

\* lower-case headers with at most one required column left out, or all five
\* headers capitalised
HeaderChoices == {<<"lower", drop>> : drop \in Drops} \cup {<<"title", {}>>}

CsvFiles ==
    {NoFile} \cup {CsvFile(h[1], h[2], rs) : h \in HeaderChoices, rs \in RowSeqs}

----------------------------------------------------------------------------
(* The DataFrame *)

\* pd.read_csv: the columns are the file's headers; a column's dtype is
\* inferred from all of its cells
read_csv(csv) == [columns |-> csv.header, rows |-> csv.rows]

\* df.columns = df.columns.str.lower().str.replace(' ', '_')
normalize_columns(df) ==
    [columns |-> {Normalize(h) : h \in df.columns},
     rows |-> [i \in 1..Len(df.rows) |->
                 [c \in {Normalize(h) : h \in df.columns} |->
                     df.rows[i][CHOOSE h \in df.columns : Normalize(h) = c]]]]

\* the dtype read_csv gives a column holding these cells
ColumnDtype(cells) ==
    IF cells = {} \/ \E c \in cells : c.kind = "str" THEN "object"
    ELSE IF \E c \in cells : c.tenths % 10 # 0 THEN "float64"
    ELSE "int64"

Dtype(df, c) == ColumnDtype({df.rows[i][c] : i \in 1..Len(df.rows)})

\* str() of one cell of a column of the given dtype
CellStr(cell, dtype) ==
    CASE dtype = "int64" -> ToString(cell.tenths \div 10)
      [] dtype = "float64" ->
            ToString(cell.tenths \div 10) \o "." \o ToString(cell.tenths % 10)
      [] OTHER -> cell.text

\* df[c].astype(str)
astype_str(df, c) ==
    [i \in 1..Len(df.rows) |-> CellStr(df.rows[i][c], Dtype(df, c))]

\* a description builder that puts the fat where the protein belongs
description_column_swapped(df) ==
    [i \in 1..Len(df.rows) |->
        df.rows[i]["name"].text \o " has " \o astype_str(df, "calories")[i]
            \o " calories, " \o astype_str(df, "fat")[i]
            \o "g protein, " \o astype_str(df, "proteins")[i]
            \o "g fat, and " \o astype_str(df, "carbohydrate")[i]
            \o "g carbohydrate."]

\* df['name'] + ' has ' + df['calories'].astype(str) + ' calories, ' + ...
description_column(df) ==
    [i \in 1..Len(df.rows) |->
        df.rows[i]["name"].text \o " has " \o astype_str(df, "calories")[i]
            \o " calories, " \o astype_str(df, "proteins")[i]
            \o "g protein, " \o astype_str(df, "fat")[i]
            \o "g fat, and " \o astype_str(df, "carbohydrate")[i]
            \o "g carbohydrate."]

\* df['description'] = ...
with_description(df) ==
    [columns |-> df.columns \cup {"description"},
     rows |-> [i \in 1..Len(df.rows) |->
                 [c \in df.columns \cup {"description"} |->
                     IF c = "description" THEN StrCell(description_column(df)[i])
                     ELSE df.rows[i][c]]]]

----------------------------------------------------------------------------
(* The relational table and the vector store *)

NoTable == [exists |-> FALSE, columns |-> {}, rows |-> <<>>]

\* df.to_sql('nutrition', conn, if_exists='replace', index=False)
to_sql(df) == [exists |-> TRUE, columns |-> df.columns, rows |-> df.rows]

NoCollection == [exists |-> FALSE, docs |-> <<>>]

documents(df) == [i \in 1..Len(df.rows) |-> df.rows[i]["description"].text]

metadatas(df) ==
    [i \in 1..Len(df.rows) |->
        [c \in df.columns \ {"description"} |-> df.rows[i][c]]]

ids(df) == [i \in 1..Len(df.rows) |-> "doc_" \o ToString(i - 1)]

\* what collection.add(documents, metadatas, ids) stores in a fresh collection
added(df) ==
    [exists |-> TRUE,
     docs |-> [i \in 1..Len(df.rows) |->
                 [id |-> ids(df)[i],
                  document |-> documents(df)[i],
                  metadata |-> metadatas(df)[i]]]]

\* client.delete_collection(name): raises when the collection is absent
delete_collection(store) ==
    IF store.exists THEN [store |-> NoCollection, raised |-> FALSE]
    ELSE [store |-> store, raised |-> TRUE]

\* an indexer that creates the collection and fails after the first document
index_nutrition_data_partial(df, store) ==
    IF documents(df) # <<>>
    THEN [store |-> [exists |-> TRUE, docs |-> SubSeq(added(df).docs, 1, 1)],
          raised |-> Len(df.rows) > 1]
    ELSE [store |-> delete_collection(store).store, raised |-> FALSE]

\* index_nutrition_data: the delete's exception is swallowed; the
\* get_or_create_collection call is commented out, so `collection` is not a
\* name of the function or of the module and collection.add raises NameError
\* whenever there are documents
index_nutrition_data(df, store) ==
    IF documents(df) # <<>>
    THEN [store |-> delete_collection(store).store, raised |-> TRUE]
    ELSE [store |-> delete_collection(store).store, raised |-> FALSE]

\* the columns the file lacks, and whether a calorie or macro cell is not a number
AbsentColumns(csv) == RequiredColumns \ {Normalize(h) : h \in csv.header}

NonNumeric(csv) ==
    \E i \in 1..Len(csv.rows) : \E h \in csv.header :
        Normalize(h) # "name" /\ csv.rows[i][h].kind = "str"

Outcome(sql, store, shown, indexRan, indexRaised) ==
    [sql |-> sql, store |-> store, shown |-> shown,
     indexRan |-> indexRan, indexRaised |-> indexRaised]

\* a loader that writes the table before it builds the description
load_data_commit_first(csv, sql, store) ==
    IF csv.missing
    THEN Outcome(sql, store, <<"info_loading", "error_not_found">>, FALSE, FALSE)
    ELSE LET df == normalize_columns(read_csv(csv)) IN
         IF ~(RequiredColumns \subseteq df.columns)
         THEN Outcome(to_sql(df), store, <<"info_loading", "error_loading">>,
                      FALSE, FALSE)
         ELSE LET full == with_description(df)
                  ix == index_nutrition_data(full, store)
              IN Outcome(to_sql(full), ix.store,
                         <<"info_loading", "success_sqlite">> \o
                             (IF ix.raised THEN <<"error_loading">>
                              ELSE <<"success_indexed">>),
                         TRUE, ix.raised)

\* load_data(conn)
load_data(csv, sql, store) ==
    IF csv.missing
    THEN \* FileNotFoundError
         Outcome(sql, store, <<"info_loading", "error_not_found">>, FALSE, FALSE)
    ELSE LET df == normalize_columns(read_csv(csv)) IN
         IF ~({"name", "calories"} \subseteq df.columns)
         THEN Outcome(sql, store, <<"info_loading", "error_columns">>, FALSE, FALSE)
         ELSE IF ~({"proteins", "fat", "carbohydrate"} \subseteq df.columns)
         THEN \* KeyError, caught by except Exception
              Outcome(sql, store, <<"info_loading", "error_loading">>, FALSE, FALSE)
         ELSE LET full == with_description(df)
                  ix == index_nutrition_data(full, store)
              IN Outcome(to_sql(full), ix.store,
                         <<"info_loading", "success_sqlite">> \o
                             (IF ix.raised THEN <<"error_loading">>
                              ELSE <<"success_indexed">>),
                         TRUE, ix.raised)

Errors == {"error_not_found", "error_columns", "error_loading", "error_rag",
           "error_recipe", "error_menu", "error_alternative"}

Shows(shown, kinds) == \E i \in 1..Len(shown) : shown[i] \in kinds

----------------------------------------------------------------------------
(* rag_query *)

Indent == "        "

\* the inner loop of lines 88-90 over one list of documents
RECURSIVE context_of_list(_, _)
context_of_list(context, doc_list) ==
    IF doc_list = <<>> THEN context
    ELSE context_of_list(CatAll(<<context, Str("- "), Str(doc_list[1]), NL>>),
                         Tail(doc_list))

\* the loops of lines 86-90 over results['documents'], one list per query text
RECURSIVE context_of(_, _)
context_of(context, results) ==
    IF results = <<>> THEN context
    ELSE context_of(context_of_list(context, results[1]), Tail(results))

context_prompt(context, query) ==
    CatAll(<<
        NL,
        Str(Indent \o "Anda adalah asisten gizi dan resep sehat. Gunakan informasi berikut sebagai konteks untuk menjawab pertanyaan pengguna."), NL,
        Str(Indent \o "Jika informasi yang diberikan tidak relevan atau tidak cukup untuk menjawab pertanyaan, nyatakan bahwa Anda tidak memiliki informasi yang cukup."), NL,
        NL,
        Str(Indent \o "**Konteks Nutrisi:**"), NL,
        Str(Indent), context, NL,
        NL,
        Str(Indent \o "**Pertanyaan Pengguna:**"), NL,
        Str(Indent), Str(query), NL,
        NL,
        Str(Indent \o "**Jawaban:**"), NL,
        Str(Indent)>>)

fallback_prompt(query) ==
    CatAll(<<
        NL,
        Str(Indent \o "Anda adalah asisten gizi dan resep sehat. Saya tidak dapat menemukan informasi relevan berdasarkan pertanyaan Anda."), NL,
        Str(Indent \o "Pertanyaan Anda: "), Str(query), NL,
        Str(Indent \o "Apakah ada hal lain yang bisa saya bantu?"), NL,
        Str(Indent)>>)

\* a prompt builder that takes the context template whatever was retrieved
build_prompt_always_context(results, query) ==
    context_prompt(context_of(Str(""), results), query)

\* lines 86-110: if context: ... else: ...
build_prompt(results, query) ==
    IF context_of(Str(""), results) # Str("")
    THEN context_prompt(context_of(Str(""), results), query)
    ELSE fallback_prompt(query)

\* what collection.query(query_texts=[query], n_results=n) can return as
\* results['documents']: one list, of the nearest min(n, count) documents in
\* an order the embedding decides
Min(a, b) == IF a < b THEN a ELSE b

query_results(store, n) ==
    LET count == Len(store.docs)
        m == Min(n, count)
    IN {<<[i \in 1..m |-> store.docs[f[i]].document]>> :
           f \in {g \in [1..m -> 1..count] :
                     \A i, j \in 1..m : i # j => g[i] # g[j]}}

\* rag_query(gemini_model, query, client): get_collection raises when the
\* collection is absent; send_message is called once and may raise
rag_query(query, store, results, callOk) ==
    IF ~store.exists
    THEN [raised |-> TRUE, calls |-> 0, prompt |-> Str(""), retrieved |-> <<>>]
    ELSE [raised |-> ~callOk, calls |-> 1,
          prompt |-> build_prompt(results, query), retrieved |-> results[1]]

----------------------------------------------------------------------------
(* The menu branches of app.py *)

Shown(action, input, shown, calls, failed, prompt, retrieved, calories) ==
    [action |-> action, input |-> input, shown |-> shown, calls |-> calls,
     failed |-> failed, prompt |-> prompt, retrieved |-> retrieved,
     calories |-> calories]

\* "Tanya Gizi", lines 115-127
tanya_gizi(query, store, results, callOk) ==
    IF query = ""
    THEN Shown("AskNutrition", query, <<"warning">>, 0, FALSE, Str(""), <<>>, 0)
    ELSE LET r == rag_query(query, store, results, callOk) IN
         Shown("AskNutrition", query,
               IF r.raised THEN <<"error_rag">>
               ELSE <<"rule", "subheader", "answer">>,
               r.calls, r.calls > 0 /\ r.raised, r.prompt, r.retrieved, 0)

\* a branch whose except clause shows nothing
try_generate_silent(callOk, error) ==
    IF callOk
    THEN [calls |-> 1, failed |-> FALSE, shown |-> <<"rule", "subheader", "answer">>]
    ELSE [calls |-> 1, failed |-> TRUE, shown |-> <<>>]

\* try: chat = start_chat(); response = chat.send_message(...); st.write(...)
\* except Exception as e: st.error(...)
try_generate(callOk, error) ==
    IF callOk
    THEN [calls |-> 1, failed |-> FALSE, shown |-> <<"rule", "subheader", "answer">>]
    ELSE [calls |-> 1, failed |-> TRUE, shown |-> <<error>>]

recipe_prompt(ingredients) ==
    CatAll(<<
        NL,
        Str(Indent \o Indent \o "Buatkan saya ide resep makanan lengkap berdasarkan bahan-bahan berikut: "),
        Str(ingredients), Str("."), NL,
        Str(Indent \o Indent \o "Sertakan nama resep, bahan-bahan lengkap (termasuk yang tidak disebutkan jika umum),"), NL,
        Str(Indent \o Indent \o "dan langkah-langkah pembuatannya yang jelas."), NL,
        Str(Indent \o Indent \o "Format jawaban Anda dalam bahasa Indonesia yang mudah dipahami."), NL,
        Str(Indent \o Indent)>>)

\* "Masak Apa Hari Ini?", lines 133-151
masak_apa(ingredients, callOk) ==
    IF ingredients = ""
    THEN Shown("SuggestRecipe", ingredients, <<"warning">>, 0, FALSE, Str(""), <<>>, 0)
    ELSE LET g == try_generate(callOk, "error_recipe") IN
         Shown("SuggestRecipe", ingredients, g.shown, g.calls, g.failed,
               recipe_prompt(ingredients), <<>>, 0)

\* a number input that commits whatever is typed
number_input_unchecked(widget, entered) ==
    [value |-> entered, entered |-> entered]

\* st.number_input(min_value=1000, max_value=5000, value=2000): a typed value
\* outside the range is refused by the widget, which keeps its value
number_input(widget, entered) ==
    IF min_value <= entered /\ entered <= max_value
    THEN [value |-> entered, entered |-> entered]
    ELSE [value |-> widget.value, entered |-> entered]

menu_prompt(calories) ==
    CatAll(<<
        NL,
        Str(Indent \o Indent \o "Buatkan rencana menu makanan sehat untuk satu minggu (7 hari) dengan target rata-rata "),
        Str(ToString(calories)), Str(" kalori per hari."), NL,
        Str(Indent \o Indent \o "Sertakan sarapan, makan siang, makan malam, dan dua camilan."), NL,
        Str(Indent \o Indent \o "Berikan ide makanan yang bervariasi dan seimbang secara nutrisi."), NL,
        Str(Indent \o Indent \o "Format jawaban Anda dalam bahasa Indonesia dengan struktur per hari (contoh: Senin: Sarapan, Makan Siang, dst.)."), NL,
        Str(Indent \o Indent)>>)

\* "Perencana Menu Mingguan", lines 156-175
perencana_menu(value, callOk) ==
    IF value = 0
    THEN Shown("WeeklyPlan", "", <<"warning">>, 0, FALSE, Str(""), <<>>, value)
    ELSE LET g == try_generate(callOk, "error_menu") IN
         Shown("WeeklyPlan", "", g.shown, g.calls, g.failed,
               menu_prompt(value), <<>>, value)

alternative_prompt(ingredient) ==
    CatAll(<<
        NL,
        Str(Indent \o Indent \o "Berikan beberapa alternatif sehat untuk bahan makanan '"),
        Str(ingredient), Str("'."), NL,
        Str(Indent \o Indent \o "Sertakan mengapa alternatif tersebut lebih sehat dan bagaimana cara menggunakannya."), NL,
        Str(Indent \o Indent \o "Format jawaban Anda dalam bahasa Indonesia."), NL,
        Str(Indent \o Indent)>>)

\* "Alternatif Sehat", lines 181-198
alternatif_sehat(ingredient, callOk) ==
    IF ingredient = ""
    THEN Shown("FindSubstitute", ingredient, <<"warning">>, 0, FALSE, Str(""), <<>>, 0)
    ELSE LET g == try_generate(callOk, "error_alternative") IN
         Shown("FindSubstitute", ingredient, g.shown, g.calls, g.failed,
               alternative_prompt(ingredient), <<>>, 0)

----------------------------------------------------------------------------
(* Inputs *)

Queries == {"", "Berapa kalori nasi goreng?"}

IngredientLists == {"", "ayam, brokoli, bawang putih"}

Ingredients == {"", "gula"}

EnteredCalories == {500, 1000, 2000, 5000, 6000}

\* a collection a working indexer built from k rows before the run starts
PriorRow(i) ==
    Record(StrCell("Makanan " \o ToString(i)), NumCell(1000 * i),
           NumCell(15 * i), NumCell(20 * i), NumCell(35 * i))

PriorCollection(k) ==
    added(with_description([columns |-> RequiredColumns,
                            rows |-> [i \in 1..k |-> PriorRow(i)]]))

PriorCollections == {NoCollection} \cup {PriorCollection(k) : k \in 0..MaxPrior}

----------------------------------------------------------------------------
(* The state machine *)

NoLoad ==
    [ran |-> FALSE, missing |-> FALSE, absent |-> {}, non_numeric |-> FALSE,
     indexRan |-> FALSE, indexRaised |-> FALSE, indexed |-> FALSE,
     again |-> FALSE, before |-> NoCollection]

Init ==
    /\ sqlTable = NoTable
    /\ collection \in PriorCollections
    /\ daily_calories = [value |-> default_calories, entered |-> default_calories]
    /\ load = NoLoad
    /\ ui = Shown("none", "", <<>>, 0, FALSE, Str(""), <<>>, 0)

\* "Index Data": the button runs load_data on the file found at CSV_PATH.
\* The entry is commented out of the sidebar (app.py line 92) and is put back
\* by whoever builds the index.
IndexData ==
    \E csv \in CsvFiles :
      \E r \in {load_data(csv, sqlTable, collection)} :
        /\ sqlTable' = r.sql
        /\ collection' = r.store
        /\ load' = [ran |-> TRUE, missing |-> csv.missing,
                    absent |-> IF csv.missing THEN {} ELSE AbsentColumns(csv),
                    non_numeric |-> NonNumeric(csv),
                    indexRan |-> r.indexRan, indexRaised |-> r.indexRaised,
                    indexed |-> load.indexed \/ r.indexRan,
                    again |-> r.indexRan /\ load.indexed /\ r.sql = sqlTable,
                    before |-> collection]
        /\ ui' = Shown("IndexData", "", r.shown, 0, FALSE, Str(""), <<>>, 0)
        /\ UNCHANGED daily_calories

AskNutrition ==
    \E query \in Queries, callOk \in BOOLEAN :
        \E results \in query_results(collection, n_results) :
            /\ ui' = tanya_gizi(query, collection, results, callOk)
            /\ UNCHANGED <<sqlTable, collection, daily_calories, load>>

SuggestRecipe ==
    \E ingredients \in IngredientLists, callOk \in BOOLEAN :
        /\ ui' = masak_apa(ingredients, callOk)
        /\ UNCHANGED <<sqlTable, collection, daily_calories, load>>

EnterCalories ==
    \E entered \in EnteredCalories :
        /\ daily_calories' = number_input(daily_calories, entered)
        /\ ui' = Shown("EnterCalories", "",
                       IF daily_calories'.value = entered THEN <<>>
                       ELSE <<"invalid">>,
                       0, FALSE, Str(""), <<>>, entered)
        /\ UNCHANGED <<sqlTable, collection, load>>

WeeklyPlan ==
    \E callOk \in BOOLEAN :
        /\ ui' = perencana_menu(daily_calories.value, callOk)
        /\ UNCHANGED <<sqlTable, collection, daily_calories, load>>

FindSubstitute ==
    \E ingredient \in Ingredients, callOk \in BOOLEAN :
        /\ ui' = alternatif_sehat(ingredient, callOk)
        /\ UNCHANGED <<sqlTable, collection, daily_calories, load>>

Next ==
    \/ IndexData
    \/ AskNutrition
    \/ SuggestRecipe
    \/ EnterCalories
    \/ WeeklyPlan
    \/ FindSubstitute

Spec == Init /\ [][Next]_vars

\* the administrative action alone, from every state of the vector store
NextIndex == IndexData

SpecIndex == Init /\ [][NextIndex]_vars

\* the four user actions alone, over every state of the vector store
NextChat ==
    \/ AskNutrition
    \/ SuggestRecipe
    \/ EnterCalories
    \/ WeeklyPlan
    \/ FindSubstitute

SpecChat == Init /\ [][NextChat]_vars

----------------------------------------------------------------------------
(* Claims *)

InRange(c) == min_value <= c /\ c <= max_value

GenerationActions == {"AskNutrition", "SuggestRecipe", "WeeklyPlan", "FindSubstitute"}

NasiGorengText ==
    "Nasi Goreng has 250 calories, 8g protein, 10g fat, and 35g carbohydrate."

\* C1: when index_nutrition_data has failed, the store holds no `nutrition`
\* collection with only some of the table's documents, so no later query can
\* see a partly written collection.
C1_ReindexAtomicOnFailure ==
    (load.indexRan /\ load.indexRaised) =>
        ~(/\ collection.exists
          /\ Len(collection.docs) < Len(sqlTable.rows)
          /\ \A k \in 1..Len(collection.docs) :
                \E i \in 1..Len(sqlTable.rows) :
                    collection.docs[k] = added(sqlTable).docs[i])

\* a reindex of two rows over an existing collection has failed
C1_Witness ==
    /\ load.indexRan /\ load.indexRaised
    /\ load.before.exists /\ Len(load.before.docs) > 0
    /\ Len(sqlTable.rows) = 2

\* C2: a non-empty question asked while the `nutrition` collection does not
\* exist leads to one model call with the fallback prompt, and to an answer
\* unless that call fails.
C2_MissingCollectionFallsBack ==
    (ui.action = "AskNutrition" /\ ui.input # "" /\ ~collection.exists) =>
        /\ ui.calls = 1
        /\ ui.prompt = fallback_prompt(ui.input)
        /\ (~ui.failed => Shows(ui.shown, {"answer"}))

\* C3: the prompt sent by rag_query is the fallback template exactly when
\* nothing was retrieved, and then has no context section; otherwise it has
\* the context header followed by one `- ` bullet per retrieved document, in
\* retrieval order, each document once, all before the user's question.
C3_PromptFollowsRetrieval ==
    (ui.action = "AskNutrition" /\ ui.calls = 1) =>
        LET p == ui.prompt
            docs == ui.retrieved
            n == Len(docs)
            header == Indent \o "**Konteks Nutrisi:**"
            Bullet(j) == (IF j = 1 THEN Indent ELSE "") \o "- " \o docs[j]
        IN /\ (p = fallback_prompt(ui.input)) <=> (n = 0)
           /\ n = 0 => \A k \in 1..Len(p) : p[k] # header
           /\ n > 0 =>
                \E h \in 1..Len(p) :
                    /\ p[h] = header
                    /\ \A j \in 1..n : h + j <= Len(p) /\ p[h + j] = Bullet(j)
                    /\ \A j \in 1..n :
                          Cardinality({k \in 1..Len(p) :
                              p[k] \in {"- " \o docs[j], Indent \o "- " \o docs[j]}}) = 1
                    /\ \E q \in (h + n + 1)..Len(p) :
                          /\ p[q - 1] = Indent \o "**Pertanyaan Pengguna:**"
                          /\ p[q] = Indent \o ui.input

\* a question answered from n_results retrieved documents
C3_Witness ==
    /\ ui.action = "AskNutrition" /\ ui.calls = 1
    /\ Len(ui.retrieved) = n_results
    /\ Len(collection.docs) > n_results

\* C4: the weekly plan's model call is never made with a calorie target
\* outside 1000..5000; a typed value outside the range is refused by the
\* widget, which marks it invalid and keeps its value, and no call is made
\* for it.
C4_CaloriesInRange ==
    /\ InRange(daily_calories.value)
    /\ (ui.action = "WeeklyPlan" /\ ui.calls > 0) => InRange(ui.calories)
    /\ (ui.action = "EnterCalories" /\ ~InRange(ui.calories)) =>
          /\ Shows(ui.shown, {"invalid"})
          /\ ui.calls = 0
          /\ daily_calories.value # ui.calories

\* the plan was asked for while 500 stood refused in the widget
C4_Witness ==
    /\ ui.action = "WeeklyPlan" /\ ui.calls = 1
    /\ daily_calories.entered = 500
    /\ ui.calories = default_calories

\* C5: after index_nutrition_data has run on a table of k rows the
\* `nutrition` collection exists and holds exactly the k documents doc_0 ..
\* doc_{k-1}, document i being row i's description with the other columns as
\* metadata, and nothing else.
C5_CollectionHoldsTable ==
    load.indexRan => collection = added(sqlTable)

\* C6: after index_nutrition_data has run twice in a row on the same table
\* the store holds a `nutrition` collection with the same documents (content
\* and metadata) as after the first run.
C6_ReindexIdempotent ==
    (load.indexRan /\ load.again) =>
        /\ collection.exists
        /\ load.before.exists
        /\ {[document |-> collection.docs[i].document,
             metadata |-> collection.docs[i].metadata] :
                i \in 1..Len(collection.docs)}
           = {[document |-> load.before.docs[i].document,
               metadata |-> load.before.docs[i].metadata] :
                i \in 1..Len(load.before.docs)}

C8_OneCallFailureShown ==
    ui.action \in GenerationActions =>
        /\ ui.calls <= 1
        /\ ui.failed => (Shows(ui.shown, Errors) /\ ~Shows(ui.shown, {"answer"}))

\* a failed model call of the weekly plan ended in an error message
C8_Witness ==
    /\ ui.action = "WeeklyPlan" /\ ui.calls = 1 /\ ui.failed
    /\ Shows(ui.shown, {"error_menu"})

C10_TableAndIndexConsistent ==
    (load.ran /\ sqlTable.exists) =>
        /\ collection.exists
        /\ [i \in 1..Len(collection.docs) |-> collection.docs[i].document]
              = documents(sqlTable)

====
